---- MODULE Spec2Model ----
(***************************************************************************)
(* Model of the realtime console client: the App component (session        *)
(* lifecycle, data channel, event log), the ToolPanel component            *)
(* (capability registration, function-call routing, deferred follow-up)    *)
(* and the EventLog component (the log as shown).                          *)
(*                                                                         *)
(* React state is held in one variable per useState/useRef cell.  A        *)
(* handler is one action: the handler body, the re-render it causes and    *)
(* the effects whose dependencies changed (repeated until no state         *)
(* changes), as React runs them before the next event is handled.          *)
(***************************************************************************)
EXTENDS Integers, Sequences, FiniteSets, TLC

\* ---------------------------------------------------------------- bounds
MaxStarts == 2      \* startSession() calls in one run
MaxEvents == 3      \* length of the events array
MaxUuid   == 3      \* crypto.randomUUID() calls in one run
MaxBurst  == 2      \* inbound messages handled before one re-render
MaxTimers == 2      \* pending setTimeout callbacks

Starts == 1..MaxStarts

\* ------------------------------------------------------- values and inputs
NULL      == "null"
UNDEFINED == "undefined"
NoId      == <<"", 0>>                \* message without event_id
ServerId  == <<"event_", 1>>          \* server ids carry the "event_" prefix

\* arguments strings a function_call output can carry
BadJson    == "{not json"
ArgNull    == "null"
ArgUp      == "{\"direction\":\"up\"}"
ArgStop    == "{\"direction\":\"stop\"}"
ArgPalette == "{\"theme\":\"ocean\"}"
ArgLeft    == "{\"direction\":\"left\"}"
ArgJump    == "{\"direction\":\"jump\"}"
ArgToString == "{\"direction\":\"toString\"}"
ArgSeven   == "{\"direction\":7}"            \* a number: parsed to the token "7"

\* JSON.parse of an arguments string: ok = FALSE is a SyntaxError
JSONparse(a) ==
  CASE a = ArgNull    -> [ok |-> TRUE,  obj |-> FALSE, direction |-> UNDEFINED]
    [] a = ArgUp      -> [ok |-> TRUE,  obj |-> TRUE,  direction |-> "up"]
    [] a = ArgStop    -> [ok |-> TRUE,  obj |-> TRUE,  direction |-> "stop"]
    [] a = ArgPalette -> [ok |-> TRUE,  obj |-> TRUE,  direction |-> UNDEFINED]
    [] a = ArgLeft    -> [ok |-> TRUE,  obj |-> TRUE,  direction |-> "left"]
    [] a = ArgJump    -> [ok |-> TRUE,  obj |-> TRUE,  direction |-> "jump"]
    [] a = ArgToString -> [ok |-> TRUE, obj |-> TRUE,  direction |-> "toString"]
    [] a = ArgSeven   -> [ok |-> TRUE,  obj |-> TRUE,  direction |-> "7"]
    [] OTHER          -> [ok |-> FALSE, obj |-> FALSE, direction |-> UNDEFINED]

Out(t, n, a) == [type |-> t, name |-> n, arguments |-> a]
NoOutput     == Out(NULL, "", "")      \* functionCallOutput === null

Outputs ==
  { Out("message", "", ""),
    Out("function_call", "control_snake", ArgUp),
    Out("function_call", "display_color_palette", ArgPalette),
    Out("function_call", "display_color_palette", BadJson),
    Out("function_call", "create_pixel_art", ArgPalette) }

MaxBatch == 2       \* outputs of one response.done
Batches  == UNION { [1..n -> Outputs] : n \in 1..MaxBatch }

Ev(t, id, out, ins) == [type |-> t, event_id |-> id, output |-> out, instr |-> ins]

\* what the server can put on the data channel
ServerEvents ==
  { Ev("session.created", ServerId, <<>>, ""),
    Ev("response.audio.delta", ServerId, <<>>, "") }
  \cup { Ev("response.done", ServerId, b, "") : b \in Batches }

\* the types of the model that end in "delta": type?.endsWith("delta")
DeltaTypes == {"response.audio.delta", "response.text.delta"}
EndsWithDelta(type) == type \in DeltaTypes

\* JSON.parse(e.data) of text that is JSON and no event.  "null" gives null:
\* reading a property of it throws.  "42" gives a number: a property read
\* gives undefined.
JsonNull   == Ev(NULL, NoId, <<>>, "")
JsonNumber == Ev(UNDEFINED, NoId, <<>>, "")

\* instructions of the follow-up response.create (ToolPanel.jsx:532-534)
PixelPrompt   == "ask for feedback about the pixel art"
PalettePrompt == "ask for feedback about the color palette"


\* ------------------------------------------------------------ Snake values
GRID_SIZE == 20

Vec(x, y) == [x |-> x, y |-> y]

INITIAL_SNAKE     == << Vec(10, 10) >>
INITIAL_DIRECTION == Vec(1, 0)

\* the directions object of the command effect (part_000:27-32)
directions ==
  [ up |-> Vec(0, -1), down |-> Vec(0, 1), left |-> Vec(-1, 0), right |-> Vec(1, 0) ]

\* property names every object inherits from Object.prototype: directions[name]
\* is a function, which is truthy
InheritedNames == {"toString", "constructor"}

\* directions[command], for a command that it is truthy for: a vector, or the
\* inherited function, which has no x and no y
Lookup(command) ==
  IF command \in DOMAIN directions THEN directions[command] ELSE [fn |-> command]

IsVec(v) == DOMAIN v = {"x", "y"}

\* a segment whose coordinates are NaN: number + undefined
NaNSeg == [nan |-> TRUE]

\* cells generateFood() is let return: Math.random() is any cell of the grid
FoodCells == { Vec(12, 10), Vec(0, 10), Vec(15, 15) }


\* ------------------------------------------------------------------ state
VARIABLES
  isSessionActive,    \* App useState(false)
  events,             \* App useState([]): newest first
  eventsToDisplay,    \* what EventLog built from events at the last render
  dataChannel,        \* App useState(null): 0 is null, k the channel of start k
  peerConnection,     \* App useRef(null).current: 0 is null, k the pc of start k
  functionAdded,      \* ToolPanel useState(false)
  functionCallOutput, \* ToolPanel useState(null)
  activeFunction,     \* ToolPanel useState(null)
  snakeCommand,       \* ToolPanel useState(null)
  snake,              \* Snake useState(INITIAL_SNAKE): head first
  direction,          \* Snake useState(INITIAL_DIRECTION)
  food,               \* Snake useState({ x: 15, y: 15 })
  isPlaying,          \* Snake useState(false)
  sessionUpdateId,    \* event_id field of the module-level sessionUpdate object
  timers,             \* pending setTimeout callbacks, in firing order; stale
                      \* records that stopSession() ran while one was pending
  listening,          \* channels that have the message/open listeners attached
  crashed,            \* an effect threw: React has unmounted the tree
  startPc,            \* startPc[k]: where startSession() call k stands
  pcState,            \* pcState[k]: RTCPeerConnection of start k
  dcState,            \* dcState[k]: readyState of the data channel of start k
  micState,           \* micState[k]: microphone track obtained by start k
  nextUuid,           \* number of the next crypto.randomUUID() result
  \* history of the run, read by the properties only
  sent,               \* sent[k]: what dataChannel.send() put on channel k
  history,            \* what was received and what was sent since the log was
                      \* last cleared, oldest first
  diag,               \* console.error calls of the last handler, by kind
  lastOp,             \* the handler that ran last
  opened,             \* starts whose channel fired its open event
  stopped             \* starts that had been invoked when stopSession() ran

vars == << isSessionActive, events, eventsToDisplay, dataChannel,
           peerConnection, functionAdded,
           functionCallOutput, activeFunction, snakeCommand, sessionUpdateId,
           snake, direction, food, isPlaying,
           timers, listening, crashed, startPc, pcState, dcState, micState,
           sent, history, nextUuid, diag, lastOp, opened, stopped >>

\* console.error calls, by kind
NoDiag == [noChannel |-> 0, parseArgs |-> 0, parseMsg |-> 0, threw |-> 0]

\* The React state and what a send touches, as one record, so that a handler,
\* the render and the effects compose as functions.
Cur ==
  [ isSessionActive |-> isSessionActive, events |-> events,
    dataChannel |-> dataChannel, functionAdded |-> functionAdded,
    functionCallOutput |-> functionCallOutput, activeFunction |-> activeFunction,
    snakeCommand |-> snakeCommand, sessionUpdateId |-> sessionUpdateId,
    timers |-> timers, listening |-> listening, crashed |-> crashed,
    sent |-> sent, history |-> history, nextUuid |-> nextUuid, diag |-> NoDiag,
    evCh |-> FALSE, actCh |-> FALSE, dcCh |-> FALSE, threw |-> FALSE ]

Init ==
  /\ isSessionActive = FALSE
  /\ events = <<>>
  /\ eventsToDisplay = <<>>
  /\ dataChannel = 0
  /\ peerConnection = 0
  /\ functionAdded = FALSE
  /\ functionCallOutput = NoOutput
  /\ activeFunction = NULL
  /\ snakeCommand = NULL
  /\ snake = INITIAL_SNAKE
  /\ direction = INITIAL_DIRECTION
  /\ food = Vec(15, 15)
  /\ isPlaying = FALSE
  /\ sessionUpdateId = NoId
  /\ timers = <<>>
  /\ listening = {}
  /\ crashed = FALSE
  /\ startPc = [k \in Starts |-> "idle"]
  /\ pcState = [k \in Starts |-> "none"]
  /\ dcState = [k \in Starts |-> "none"]
  /\ micState = [k \in Starts |-> "none"]
  /\ sent = [k \in Starts |-> <<>>]
  /\ history = <<>>
  /\ nextUuid = 1
  /\ diag = NoDiag
  /\ lastOp = "init"
  /\ opened = {}
  /\ stopped = {}

\* ------------------------------------------------------- React state setters
\* A setter after the tree is unmounted does nothing.
setEvents(S, e) ==
  IF S.crashed THEN S ELSE [S EXCEPT !.events = e, !.evCh = TRUE]

\* Object.is bail-out: setting a primitive to its current value re-renders nothing
setIsSessionActive(S, b) ==
  IF S.crashed \/ S.isSessionActive = b THEN S
  ELSE [S EXCEPT !.isSessionActive = b, !.actCh = TRUE]

setDataChannel(S, d) ==
  IF S.crashed \/ S.dataChannel = d THEN S
  ELSE [S EXCEPT !.dataChannel = d, !.dcCh = TRUE]

Log(S, kind) == [S EXCEPT !.diag[kind] = @ + 1]


\* ------------------------------------------------------------ sendClientEvent
\* The module-level sessionUpdate object: an event_id assigned by one send stays
\* on the object for every later send.
sessionUpdate(S) == Ev("session.update", S.sessionUpdateId, <<>>, "")

\* sendClientEvent with a bug: line 264 is missing, the message is sent and
\* recorded as the caller made it
sendClientEvent_NoId(S, dcs, dc, message) ==
  IF dc = 0
  THEN Log(S, "noChannel")
  ELSE IF dcs[dc] # "open"
       THEN [S EXCEPT !.threw = TRUE]
       ELSE setEvents([S EXCEPT !.sent[dc] = Append(@, message)],
                      <<message>> \o S.events)

\* sendClientEvent with a bug: the message is recorded in the log before
\* dataChannel.send() is called, so a send that throws leaves it recorded
sendClientEvent_RecordFirst(S, dcs, dc, message) ==
  IF dc = 0
  THEN Log(S, "noChannel")
  ELSE LET fresh == message.event_id = NoId
           id    == IF fresh THEN <<"uuid", S.nextUuid>> ELSE message.event_id
           m     == [message EXCEPT !.event_id = id]
           S1    == [S EXCEPT !.nextUuid = IF fresh THEN @ + 1 ELSE @,
                              !.sessionUpdateId =
                                 IF message.type = "session.update" THEN id ELSE @]
           S2    == setEvents(S1, <<m>> \o S1.events)
       IN  IF dcs[dc] # "open"
           THEN [S2 EXCEPT !.threw = TRUE]
           ELSE [S2 EXCEPT !.sent[dc] = Append(@, m)]

\* sendClientEvent(message) as closed over the render whose dataChannel was dc.
\* dcs[dc] is the channel's readyState now.  RTCDataChannel.send() throws
\* InvalidStateError unless the channel is open: threw reports it to the caller.
sendClientEvent(S, dcs, dc, message) ==
  IF dc = 0
  THEN Log(S, "noChannel")
  ELSE LET fresh == message.event_id = NoId
           id    == IF fresh THEN <<"uuid", S.nextUuid>> ELSE message.event_id
           m     == [message EXCEPT !.event_id = id]
           S1    == [S EXCEPT !.nextUuid = IF fresh THEN @ + 1 ELSE @,
                              !.sessionUpdateId =
                                 IF message.type = "session.update" THEN id ELSE @]
       IN  IF dcs[dc] # "open"
           THEN [S1 EXCEPT !.threw = TRUE]
           ELSE setEvents([S1 EXCEPT !.sent[dc] = Append(@, m),
                                     !.history = Append(@, m)],
                          <<m>> \o S1.events)

\* ------------------------------------------------------------ ToolPanel effects
\* RouteOutput with a bug: the handler state is set before the arguments are
\* validated
RouteOutput_SetBeforeParse(S, dc, output) ==
  IF output.type # "function_call" THEN S
  ELSE LET parsed == JSONparse(output.arguments)
           S1 == [S EXCEPT !.functionCallOutput = output,
                           !.activeFunction = output.name]
       IN  IF ~parsed.ok THEN Log(S1, "parseArgs")
           ELSE IF output.name = "control_snake"
                THEN IF parsed.obj
                     THEN [S1 EXCEPT !.snakeCommand = parsed.direction]
                     ELSE Log(S1, "parseArgs")
                ELSE [S1 EXCEPT !.timers = Append(@,
                        [instr |-> IF output.name = "create_pixel_art"
                                   THEN PixelPrompt ELSE PalettePrompt,
                         dc    |-> dc,
                         stale |-> FALSE])]

\* RouteOutput with a bug: the follow-up is sent inline, not by a timer
RouteOutput_Inline(S, dc, output) ==
  IF output.type # "function_call" THEN S
  ELSE LET parsed == JSONparse(output.arguments) IN
       IF ~parsed.ok THEN Log(S, "parseArgs")
       ELSE LET S1 == [S EXCEPT !.functionCallOutput = output,
                                !.activeFunction = output.name]
            IN  IF output.name = "control_snake"
                THEN IF parsed.obj
                     THEN [S1 EXCEPT !.snakeCommand = parsed.direction]
                     ELSE Log(S1, "parseArgs")
                ELSE sendClientEvent(S1, dcState, dc,
                        Ev("response.create", NoId, <<>>,
                           IF output.name = "create_pixel_art"
                           THEN PixelPrompt ELSE PalettePrompt))

\* RouteOutput with a bug: the follow-up is scheduled for every capability,
\* control_snake included
RouteOutput_AlwaysFollowUp(S, dc, output) ==
  IF output.type # "function_call" THEN S
  ELSE LET parsed == JSONparse(output.arguments) IN
       IF ~parsed.ok THEN Log(S, "parseArgs")
       ELSE LET S1 == [S EXCEPT !.functionCallOutput = output,
                                !.activeFunction = output.name,
                                !.timers = Append(@,
                                   [instr |-> IF output.name = "create_pixel_art"
                                              THEN PixelPrompt ELSE PalettePrompt,
                                    dc    |-> dc,
                                    stale |-> FALSE])]
            IN  IF output.name = "control_snake"
                THEN IF parsed.obj
                     THEN [S1 EXCEPT !.snakeCommand = parsed.direction]
                     ELSE Log(S1, "parseArgs")
                ELSE S1

\* One output of response.done, inside forEach (ToolPanel.jsx:513-544).  dc is the
\* dataChannel of the render the effect belongs to: the timer callback closes over it.
RouteOutput(S, dc, output) ==
  IF output.type # "function_call" THEN S
  ELSE LET parsed == JSONparse(output.arguments) IN
       IF ~parsed.ok THEN Log(S, "parseArgs")
       ELSE LET S1 == [S EXCEPT !.functionCallOutput = output,
                                !.activeFunction = output.name]
            IN  IF output.name = "control_snake"
                THEN IF parsed.obj
                     THEN [S1 EXCEPT !.snakeCommand = parsed.direction]
                     ELSE Log(S1, "parseArgs")   \* destructuring null throws
                ELSE [S1 EXCEPT !.timers = Append(@,
                        [instr |-> IF output.name = "create_pixel_art"
                                   THEN PixelPrompt ELSE PalettePrompt,
                         dc    |-> dc,
                         stale |-> FALSE])]

RECURSIVE RouteOutputs(_, _, _)
RouteOutputs(S, dc, outputs) ==
  IF outputs = <<>> THEN S
  ELSE RouteOutputs(RouteOutput(S, dc, Head(outputs)), dc, Tail(outputs))

\* the registration test of ToolPanel.jsx:502-503, a bug: the newest event is
\* tested and the flag is not
ShouldRegister_NewestNoFlag(snap) ==
  snap.events[1].type = "session.created"

\* the registration test of ToolPanel.jsx:502-503: the oldest event of the log
ShouldRegister(snap) ==
  LET firstEvent == snap.events[Len(snap.events)]
  IN  ~snap.functionAdded /\ firstEvent.type = "session.created"

\* useEffect(..., [events]) of ToolPanel.jsx:499-546.  snap is the render the
\* effect closes over; S accumulates the state updates.
\* Reading .type of an entry that is null throws a TypeError: firstEvent.type
\* is read only when functionAdded is false, mostRecentEvent.type always.
EventsEffect(snap, S, dcs) ==
  IF Len(snap.events) = 0 THEN S
  ELSE LET firstEvent      == snap.events[Len(snap.events)]
           mostRecentEvent == snap.events[1]
           R  == sendClientEvent(S, dcs, snap.dataChannel, sessionUpdate(S))
           S1 == IF ~snap.functionAdded /\ firstEvent = JsonNull
                 THEN [Log(S, "threw") EXCEPT !.crashed = TRUE]
                 ELSE IF ShouldRegister(snap)
                      THEN IF R.threw
                           THEN [Log(R, "threw") EXCEPT !.crashed = TRUE]
                           ELSE [R EXCEPT !.functionAdded = TRUE]
                      ELSE S
       IN  IF S1.crashed THEN S1
           ELSE IF mostRecentEvent = JsonNull
                THEN [Log(S1, "threw") EXCEPT !.crashed = TRUE]
                ELSE IF mostRecentEvent.type = "response.done"
                     THEN RouteOutputs(S1, snap.dataChannel, mostRecentEvent.output)
                     ELSE S1

\* useEffect(..., [isSessionActive]) of ToolPanel.jsx:548-554
ResetEffect(snap, S) ==
  IF ~snap.isSessionActive
  THEN [S EXCEPT !.functionAdded = FALSE,
                 !.functionCallOutput = NoOutput,
                 !.activeFunction = NULL]
  ELSE S

\* useEffect(..., [dataChannel]) of App: attaches the message and open listeners
ChannelEffect(snap, S) ==
  IF snap.dataChannel = 0 THEN S
  ELSE [S EXCEPT !.listening = @ \cup {snap.dataChannel}]

\* One render and the effects whose dependencies changed, children first.
Round(S, dcs) ==
  LET S0 == [S EXCEPT !.evCh = FALSE, !.actCh = FALSE, !.dcCh = FALSE]
      S1 == IF S.evCh THEN EventsEffect(S, S0, dcs) ELSE S0
      S2 == IF S.actCh /\ ~S1.crashed THEN ResetEffect(S, S1) ELSE S1
      S3 == IF S.dcCh /\ ~S2.crashed THEN ChannelEffect(S, S2) ELSE S2
  IN  S3

\* Renders repeat until no effect changed a dependency.
RECURSIVE Flush(_, _)
Flush(S, dcs) ==
  IF S.crashed \/ ~(S.evCh \/ S.actCh \/ S.dcCh) THEN S
  ELSE Flush(Round(S, dcs), dcs)

\* ---------------------------------------------------------------- EventLog
\* events.forEach of EventLog.jsx:44-62: the array is walked newest first, a
\* null entry is skipped, a delta event is skipped when one of its type has been
\* pushed already.
RECURSIVE EventLogFrom(_, _, _)
EventLogFrom(evs, deltaEvents, pushed) ==
  IF evs = <<>> THEN pushed
  ELSE LET event == Head(evs) IN
       IF event = JsonNull
       THEN EventLogFrom(Tail(evs), deltaEvents, pushed)
       ELSE IF EndsWithDelta(event.type)
            THEN IF event.type \in deltaEvents
                 THEN EventLogFrom(Tail(evs), deltaEvents, pushed)
                 ELSE EventLogFrom(Tail(evs), deltaEvents \cup {event.type},
                                   Append(pushed, event))
            ELSE EventLogFrom(Tail(evs), deltaEvents, Append(pushed, event))

\* EventLog with a bug: no coalescing, every entry that is not null is shown
EventLog_NoDedup(evs) == SelectSeq(evs, LAMBDA e : e # JsonNull)

\* EventLog with a bug: the array is walked oldest first, so the entry kept for
\* a delta type is the oldest one, where it stands
Reversed(q) == [i \in 1..Len(q) |-> q[Len(q) + 1 - i]]

EventLog_OldestKept(evs) == Reversed(EventLogFrom(Reversed(evs), {}, <<>>))

EventLog(evs) == EventLogFrom(evs, {}, <<>>)

\* isClient of the Event component (EventLog.jsx:7): the id is there and does
\* not start with "event_"
isClient(event) == event.event_id # NoId /\ event.event_id[1] # "event_"

\* --------------------------------------------------------------------- Snake
\* ToolPanel renders <Snake command={snakeCommand}/> only while the session is
\* active and control_snake is the active function (ToolPanel.jsx:569-578).
SnakeMounted(active, output, fn, dead) ==
  ~dead /\ active /\ output # NoOutput /\ fn = "control_snake"

\* the Snake state of a component that has just been mounted
NewGame ==
  [ snake |-> INITIAL_SNAKE, direction |-> INITIAL_DIRECTION,
    food |-> Vec(15, 15), isPlaying |-> FALSE ]

\* useEffect(..., [command]) of Snake (part_000:24-40)
CommandEffect(G, command) ==
  IF command \in {NULL, UNDEFINED} THEN G
  ELSE IF command \in DOMAIN directions \cup InheritedNames
       THEN [G EXCEPT !.direction = Lookup(command), !.isPlaying = TRUE]
       ELSE IF command = "stop" THEN [G EXCEPT !.isPlaying = FALSE] ELSE G

\* The Snake component after the render that follows a handler: unmounted, its
\* state is gone; mounted anew, its effects run with the command it is given;
\* kept, the command effect runs if the command is another one than before.
SnakeRender(T) ==
  LET was == SnakeMounted(isSessionActive, functionCallOutput, activeFunction, crashed)
      now == SnakeMounted(T.isSessionActive, T.functionCallOutput,
                          T.activeFunction, T.crashed)
      G   == [ snake |-> snake, direction |-> direction,
               food |-> food, isPlaying |-> isPlaying ]
  IN  IF ~now THEN NewGame
      ELSE IF ~was THEN CommandEffect(NewGame, T.snakeCommand)
      ELSE IF T.snakeCommand # snakeCommand THEN CommandEffect(G, T.snakeCommand)
      ELSE G

\* The state after a handler: T is the record the handler and its renders left.
Commit(T) ==
  /\ T.nextUuid <= MaxUuid + 1
  /\ Len(T.events) <= MaxEvents
  /\ Len(T.timers) <= MaxTimers
  /\ isSessionActive' = T.isSessionActive
  /\ events' = T.events
  /\ eventsToDisplay' = EventLog(T.events)
  /\ dataChannel' = T.dataChannel
  /\ functionAdded' = T.functionAdded
  /\ functionCallOutput' = T.functionCallOutput
  /\ activeFunction' = T.activeFunction
  /\ snakeCommand' = T.snakeCommand
  /\ snake' = SnakeRender(T).snake
  /\ direction' = SnakeRender(T).direction
  /\ food' = SnakeRender(T).food
  /\ isPlaying' = SnakeRender(T).isPlaying
  /\ sessionUpdateId' = T.sessionUpdateId
  /\ timers' = T.timers
  /\ listening' = T.listening
  /\ crashed' = T.crashed
  /\ sent' = T.sent
  /\ history' = T.history
  /\ nextUuid' = T.nextUuid
  /\ diag' = T.diag


\* ----------------------------------------------------------------- startSession
\* where a startSession() call can have ended with its promise rejected
Failed == {"failedToken", "failedMic", "failedExchange"}

HostUnchanged ==
  UNCHANGED << isSessionActive, events, eventsToDisplay, dataChannel,
               functionAdded,
               functionCallOutput, activeFunction, snakeCommand, sessionUpdateId,
               timers, listening, crashed, sent, history, nextUuid >>

AppUnchanged ==
  /\ HostUnchanged
  /\ UNCHANGED << snake, direction, food, isPlaying >>

\* startSession() with a bug: the session is marked active as soon as the call
\* begins
StartSession_Optimistic(k) ==
  /\ ~crashed
  /\ startPc[k] = "idle"
  /\ \A j \in Starts : j < k => startPc[j] # "idle"
  /\ startPc' = [startPc EXCEPT ![k] = "token"]
  /\ lastOp' = "start"
  /\ Commit(Flush(setIsSessionActive(Cur, TRUE), dcState))
  /\ UNCHANGED << peerConnection, pcState, dcState, micState, opened, stopped >>

\* startSession() is called: runs to its first await, fetch("/token").  Calls
\* are numbered in the order they are made; once React has unmounted the tree
\* nothing can call startSession(), stopSession() or sendTextMessage().
StartSession(k) ==
  /\ ~crashed
  /\ startPc[k] = "idle"
  /\ \A j \in Starts : j < k => startPc[j] # "idle"
  /\ startPc' = [startPc EXCEPT ![k] = "token"]
  /\ lastOp' = "start"
  /\ diag' = NoDiag
  /\ AppUnchanged
  /\ UNCHANGED << peerConnection, pcState, dcState, micState, opened, stopped >>

\* fetch("/token"), json() and data.client_secret.value; then new
\* RTCPeerConnection() and the getUserMedia request.
AwaitToken(k, ok) ==
  /\ startPc[k] = "token"
  /\ startPc' = [startPc EXCEPT ![k] = IF ok THEN "mic" ELSE "failedToken"]
  /\ pcState' = [pcState EXCEPT ![k] = IF ok THEN "open" ELSE @]
  /\ lastOp' = "token"
  /\ diag' = NoDiag
  /\ AppUnchanged
  /\ UNCHANGED << peerConnection, dcState, micState, opened, stopped >>

\* getUserMedia resolves: addTrack, createDataChannel, setDataChannel(dc), and
\* the start of the offer/answer exchange.
AwaitMic(k, ok) ==
  /\ startPc[k] = "mic"
  /\ startPc' = [startPc EXCEPT ![k] = IF ok THEN "exchange" ELSE "failedMic"]
  /\ micState' = [micState EXCEPT ![k] = IF ok THEN "live" ELSE @]
  /\ dcState' = [dcState EXCEPT ![k] = IF ok THEN "connecting" ELSE @]
  /\ lastOp' = "mic"
  /\ IF ok THEN Commit(Flush(setDataChannel(Cur, k), dcState'))
     ELSE AppUnchanged /\ diag' = NoDiag
  /\ UNCHANGED << peerConnection, pcState, opened, stopped >>

\* The offer/answer exchange: createOffer, setLocalDescription, the POST of the
\* offer, text() and setRemoteDescription(answer); then peerConnection.current =
\* pc.  No program state changes between these awaits, so they are one step.
\* The status of the response is never read: a non-success response ("status")
\* is taken as the answer, its body is no session description, and
\* setRemoteDescription rejects it.
AwaitExchange(k, r) ==
  /\ startPc[k] = "exchange"
  /\ startPc' = [startPc EXCEPT ![k] = IF r = "ok" THEN "done" ELSE "failedExchange"]
  /\ peerConnection' = IF r = "ok" THEN k ELSE peerConnection
  /\ lastOp' = "exchange"
  /\ diag' = NoDiag
  /\ AppUnchanged
  /\ UNCHANGED << pcState, dcState, micState, opened, stopped >>

\* ------------------------------------------------------------------ stopSession
\* stopSession() with a bug: peerConnection.current is closed and not cleared
StopSession_KeepsPc ==
  /\ ~crashed
  /\ dcState' = [k \in Starts |->
                   IF dcState[k] # "none" /\ (k = dataChannel \/ k = peerConnection)
                   THEN "closed" ELSE dcState[k]]
  /\ pcState' = [k \in Starts |->
                   IF k = peerConnection THEN "closed" ELSE pcState[k]]
  /\ peerConnection' = peerConnection
  /\ LET T == Flush(setDataChannel(setIsSessionActive(Cur, FALSE), 0), dcState')
     IN  Commit([T EXCEPT !.timers =
                   [i \in 1..Len(T.timers) |-> [T.timers[i] EXCEPT !.stale = TRUE]]])
  /\ lastOp' = "stop"
  /\ stopped' = stopped \cup {k \in Starts : startPc[k] # "idle"}
  /\ UNCHANGED << startPc, micState, opened >>

\* dataChannel.close(), peerConnection.current.close() (which closes the pc's own
\* channel), the three resets, and the render.  Nothing stops the microphone
\* track and nothing clears a timer.
StopSession ==
  /\ ~crashed
  /\ dcState' = [k \in Starts |->
                   IF dcState[k] # "none" /\ (k = dataChannel \/ k = peerConnection)
                   THEN "closed" ELSE dcState[k]]
  /\ pcState' = [k \in Starts |->
                   IF k = peerConnection THEN "closed" ELSE pcState[k]]
  /\ peerConnection' = 0
  /\ LET T == Flush(setDataChannel(setIsSessionActive(Cur, FALSE), 0), dcState')
     IN  Commit([T EXCEPT !.timers =
                   [i \in 1..Len(T.timers) |-> [T.timers[i] EXCEPT !.stale = TRUE]]])
  /\ lastOp' = "stop"
  /\ stopped' = stopped \cup {k \in Starts : startPc[k] # "idle"}
  /\ UNCHANGED << startPc, micState, opened >>

\* ------------------------------------------------------------ data channel events
\* the open listener with a bug: setEvents([]) is missing
DcOpen_KeepsLog(k) ==
  /\ startPc[k] = "done"
  /\ pcState[k] = "open"
  /\ dcState[k] = "connecting"
  /\ dcState' = [dcState EXCEPT ![k] = "open"]
  /\ IF k \in listening
     THEN Commit(Flush(setIsSessionActive(Cur, TRUE), dcState'))
     ELSE AppUnchanged /\ diag' = NoDiag
  /\ opened' = IF k \in listening /\ ~crashed THEN opened \cup {k} ELSE opened
  /\ lastOp' = "open"
  /\ UNCHANGED << peerConnection, startPc, pcState, micState, stopped >>

\* The channel opens once the answer is applied and the transport connects.
DcOpen(k) ==
  /\ startPc[k] = "done"
  /\ pcState[k] = "open"
  /\ dcState[k] = "connecting"
  /\ dcState' = [dcState EXCEPT ![k] = "open"]
  /\ IF k \in listening
     THEN Commit(Flush(setEvents(setIsSessionActive(
                         [Cur EXCEPT !.history = IF crashed THEN @ ELSE <<>>],
                         TRUE), <<>>), dcState'))
     ELSE AppUnchanged /\ diag' = NoDiag
  /\ opened' = IF k \in listening /\ ~crashed THEN opened \cup {k} ELSE opened
  /\ lastOp' = "open"
  /\ UNCHANGED << peerConnection, startPc, pcState, micState, stopped >>

\* what arrives as e.data: the JSON text of an event, or text that is no JSON
Garbage == Ev("{garbage", NoId, <<>>, "")
RawMessages == ServerEvents \cup {Garbage}

\* the events of a plain session: created, streaming audio, one palette call
SessionEvents ==
  { Ev("session.created", ServerId, <<>>, ""),
    Ev("response.audio.delta", ServerId, <<>>, ""),
    Ev("response.done", ServerId,
       <<Out("function_call", "display_color_palette", ArgPalette)>>, "") }

\* the message listener with a bug: setEvents([data, ...events]) with the
\* events of the render the listener closes over, no updater function
RECURSIVE Receive_StaleClosure(_, _)
Receive_StaleClosure(S, raw) ==
  IF raw = <<>> THEN S
  ELSE Receive_StaleClosure(
         IF Head(raw) = Garbage
         THEN Log(S, "parseMsg")
         ELSE [setEvents(S, <<Head(raw)>> \o events)
                 EXCEPT !.history = IF S.crashed THEN @ ELSE Append(@, Head(raw))],
         Tail(raw))

\* the message listener (App:299-306) for each message of a burst, in order
RECURSIVE Receive(_, _)
Receive(S, raw) ==
  IF raw = <<>> THEN S
  ELSE Receive(IF Head(raw) = Garbage
               THEN Log(S, "parseMsg")
               ELSE [setEvents(S, <<Head(raw)>> \o S.events)
                       EXCEPT !.history = IF S.crashed THEN @ ELSE Append(@, Head(raw))],
               Tail(raw))

Bursts == UNION { [1..n -> SessionEvents] : n \in 1..MaxBurst }

\* Messages arrive on an open channel; React renders once after the burst.
OnMessage(k, raw) ==
  /\ dcState[k] = "open"
  /\ k \in listening
  /\ Commit(Flush(Receive(Cur, raw), dcState))
  /\ lastOp' = "message"
  /\ UNCHANGED << peerConnection, startPc, pcState, dcState, micState, opened, stopped >>

\* ------------------------------------------------------------- sendTextMessage
SendTextMessage ==
  /\ ~crashed
  /\ LET S1 == sendClientEvent(Cur, dcState, dataChannel,
                               Ev("conversation.item.create", NoId, <<>>, ""))
         S2 == IF S1.threw THEN Log(S1, "threw")
               ELSE LET R == sendClientEvent(S1, dcState, dataChannel,
                                             Ev("response.create", NoId, <<>>, ""))
                    IN  IF R.threw THEN Log(R, "threw") ELSE R
     IN  Commit(Flush(S2, dcState))
  /\ lastOp' = "sendText"
  /\ UNCHANGED << peerConnection, startPc, pcState, dcState, micState, opened, stopped >>

\* ------------------------------------------------- sendClientEvent, as a prop
\* ids a caller can put on a message itself: sendClientEvent keeps them
\* (message.event_id || ...).  One is a plain string, one has the prefix of
\* the server's ids.
CallerIds == { <<"caller_", 1>>, <<"event_", 9>> }

\* A child component that was handed sendClientEvent calls it with a message
\* that carries its own event_id.
SendCallerEvent(id) ==
  /\ ~crashed
  /\ LET R == sendClientEvent(Cur, dcState, dataChannel,
                              Ev("response.create", id, <<>>, ""))
     IN  Commit(Flush(IF R.threw THEN Log(R, "threw") ELSE R, dcState))
  /\ lastOp' = "send"
  /\ UNCHANGED << peerConnection, startPc, pcState, dcState, micState, opened, stopped >>

\* ---------------------------------------------------------- the deferred follow-up
\* The setTimeout callback of ToolPanel.jsx:528-537 fires: sendClientEvent as
\* closed over by the render that scheduled it.
TimerFire ==
  /\ timers # <<>>
  /\ LET t  == Head(timers)
         S0 == [Cur EXCEPT !.timers = Tail(timers)]
         R  == sendClientEvent(S0, dcState, t.dc,
                               Ev("response.create", NoId, <<>>, t.instr))
     IN  Commit(Flush(IF R.threw THEN Log(R, "threw") ELSE R, dcState))
  /\ lastOp' = "timer"
  /\ UNCHANGED << peerConnection, startPc, pcState, dcState, micState, opened, stopped >>

\* The whole client: any number of startSession() calls in flight, stopSession()
\* at any time, bursts of plain session events.
Next ==
  \/ \E k \in Starts : StartSession(k)
  \/ \E k \in Starts, ok \in BOOLEAN : AwaitToken(k, ok)
  \/ \E k \in Starts, ok \in BOOLEAN : AwaitMic(k, ok)
  \/ \E k \in Starts, r \in {"ok", "status", "reject"} : AwaitExchange(k, r)
  \/ StopSession
  \/ \E k \in Starts : DcOpen(k)
  \/ \E k \in Starts, raw \in Bursts : OnMessage(k, raw)
  \/ SendTextMessage
  \/ TimerFire

Spec == Init /\ [][Next]_vars

\* One session that starts without failure, receiving every kind of message one
\* at a time: the routing of function calls.
NextRoute ==
  \/ StartSession(1)
  \/ AwaitToken(1, TRUE)
  \/ AwaitMic(1, TRUE)
  \/ AwaitExchange(1, "ok")
  \/ DcOpen(1)
  \/ \E m \in RawMessages : OnMessage(1, <<m>>)
  \/ TimerFire
  \/ StopSession

SpecRoute == Init /\ [][NextRoute]_vars

\* what the log is shown from: streaming deltas of two types, told apart by
\* their ids, a plain event, and text that is no event
LogMessages ==
  { Ev("session.created", ServerId, <<>>, ""),
    Ev("response.audio.delta", <<"event_", 2>>, <<>>, ""),
    Ev("response.audio.delta", <<"event_", 3>>, <<>>, ""),
    Ev("response.text.delta", <<"event_", 4>>, <<>>, ""),
    Garbage, JsonNull, JsonNumber }

\* One session receiving them one at a time, the text input, and sends that
\* carry an id of the caller's.
NextLog ==
  \/ StartSession(1)
  \/ AwaitToken(1, TRUE)
  \/ AwaitMic(1, TRUE)
  \/ AwaitExchange(1, "ok")
  \/ DcOpen(1)
  \/ \E m \in LogMessages : OnMessage(1, <<m>>)
  \/ SendTextMessage
  \/ \E id \in CallerIds : SendCallerEvent(id)
  \/ StopSession

SpecLog == Init /\ [][NextLog]_vars

\* ------------------------------------------------------------- Snake handlers
SnakeShown == SnakeMounted(isSessionActive, functionCallOutput, activeFunction, crashed)

NothingElse ==
  /\ HostUnchanged
  /\ diag' = NoDiag
  /\ UNCHANGED << peerConnection, startPc, pcState, dcState, micState, opened, stopped >>

\* the onClick handlers of the five buttons (part_000:132-175)
Button(b) ==
  /\ SnakeShown
  /\ IF b = "stop"
     THEN isPlaying' = FALSE /\ UNCHANGED direction
     ELSE isPlaying' = TRUE /\ direction' = directions[b]
  /\ lastOp' = "button"
  /\ UNCHANGED << snake, food >>
  /\ NothingElse

Keys == {"ArrowUp", "ArrowDown", "ArrowLeft", "ArrowRight", " ", "a"}

\* the keyDirections table of handleKeyPress (part_000:70-76)
keyDirections ==
  [ ArrowUp |-> "up", ArrowDown |-> "down",
    ArrowLeft |-> "left", ArrowRight |-> "right" ] @@ (" " :> "stop")

\* handleKeyPress (part_000:69-87); lastOp is the key that was pressed.  The
\* space bar stops the game.  For an arrow key the handler reads directions,
\* which is declared inside the command effect and is not in scope here: a
\* ReferenceError is raised before any state is set.  A key that is not in
\* the table does nothing.
KeyPress(key) ==
  /\ SnakeShown
  /\ IF key \in DOMAIN keyDirections
     THEN IF keyDirections[key] = "stop"
          THEN isPlaying' = FALSE /\ diag' = NoDiag
          ELSE UNCHANGED isPlaying /\ diag' = [NoDiag EXCEPT !.threw = 1]
     ELSE UNCHANGED isPlaying /\ diag' = NoDiag
  /\ lastOp' = key
  /\ UNCHANGED << snake, food, direction >>
  /\ HostUnchanged
  /\ UNCHANGED << peerConnection, startPc, pcState, dcState, micState, opened, stopped >>

MaxSnake == 2       \* segments of the snake

\* the game loop with a bug: the tail is dropped also when the food is eaten
Tick_NoGrow ==
  /\ SnakeShown
  /\ isPlaying
  /\ LET head    == snake[1]
         newHead == IF IsVec(direction) /\ IsVec(head)
                    THEN Vec((head.x + direction.x + GRID_SIZE) % GRID_SIZE,
                             (head.y + direction.y + GRID_SIZE) % GRID_SIZE)
                    ELSE NaNSeg
     IN  /\ snake' = <<newHead>> \o SubSeq(snake, 1, Len(snake) - 1)
         /\ IF newHead = food THEN food' \in FoodCells ELSE food' = food
  /\ lastOp' = "tick"
  /\ UNCHANGED << direction, isPlaying >>
  /\ NothingElse

\* the game loop with a bug: no wrap at the edges
Tick_NoWrap ==
  /\ SnakeShown
  /\ isPlaying
  /\ LET head    == snake[1]
         newHead == IF IsVec(direction) /\ IsVec(head)
                    THEN Vec(head.x + direction.x, head.y + direction.y)
                    ELSE NaNSeg
     IN  IF newHead = food
         THEN /\ Len(snake) < MaxSnake
              /\ snake' = <<newHead>> \o snake
              /\ food' \in FoodCells
         ELSE /\ snake' = <<newHead>> \o SubSeq(snake, 1, Len(snake) - 1)
              /\ food' = food
  /\ lastOp' = "tick"
  /\ UNCHANGED << direction, isPlaying >>
  /\ NothingElse

\* one firing of the setInterval callback (part_000:46-62), while playing
Tick ==
  /\ SnakeShown
  /\ isPlaying
  /\ LET head    == snake[1]
         newHead == IF IsVec(direction) /\ IsVec(head)
                    THEN Vec((head.x + direction.x + GRID_SIZE) % GRID_SIZE,
                             (head.y + direction.y + GRID_SIZE) % GRID_SIZE)
                    ELSE NaNSeg
     IN  IF newHead = food
         THEN /\ Len(snake) < MaxSnake
              /\ snake' = <<newHead>> \o snake
              /\ food' \in FoodCells
         ELSE /\ snake' = <<newHead>> \o SubSeq(snake, 1, Len(snake) - 1)
              /\ food' = food
  /\ lastOp' = "tick"
  /\ UNCHANGED << direction, isPlaying >>
  /\ NothingElse

\* response.done with one control_snake call
SnakeDone(a) == Ev("response.done", ServerId, <<Out("function_call", "control_snake", a)>>, "")

SnakeArgs == {ArgUp, ArgLeft, ArgStop, ArgJump, ArgToString, ArgSeven}

\* One session in which the model is told to steer the snake, and the player
\* uses the buttons and the keyboard.
NextSnake ==
  \/ StartSession(1)
  \/ AwaitToken(1, TRUE)
  \/ AwaitMic(1, TRUE)
  \/ AwaitExchange(1, "ok")
  \/ DcOpen(1)
  \/ \E a \in SnakeArgs : OnMessage(1, <<SnakeDone(a)>>)
  \/ \E b \in {"up", "down", "left", "right", "stop"} : Button(b)
  \/ \E key \in Keys : KeyPress(key)
  \/ StopSession

SpecSnake == Init /\ [][NextSnake]_vars

\* The game itself: the snake is started by one control_snake call and then
\* steered by the buttons while the interval fires.
NextGame ==
  \/ StartSession(1)
  \/ AwaitToken(1, TRUE)
  \/ AwaitMic(1, TRUE)
  \/ AwaitExchange(1, "ok")
  \/ DcOpen(1)
  \/ OnMessage(1, <<SnakeDone(ArgUp)>>)
  \/ \E b \in {"up", "down", "left", "right", "stop"} : Button(b)
  \/ Tick

SpecGame == Init /\ [][NextGame]_vars


\* =================================================================== claims
\* number of entries of sequence q that satisfy type = t
Range(q) == {q[i] : i \in 1..Len(q)}

CountType(q, t) == Cardinality({i \in 1..Len(q) : q[i].type = t})

\* C1: on one data channel (one session) the session.update registration is
\* transmitted at most once, and the log of one session records at most one,
\* however many session.created events arrive.
C1_RegistrationAtMostOnce ==
  /\ \A k \in Starts : CountType(sent[k], "session.update") <= 1
  /\ CountType(events, "session.update") <= 1

\* two session.created events received in a session, one registration sent
C1_Witness ==
  /\ CountType(events, "session.created") >= 2
  /\ \E k \in Starts : dcState[k] = "open" /\ CountType(sent[k], "session.update") = 1
  /\ functionAdded


\* --- routing of one response.done, stated from the batch alone
\* A step that handled response.done: the message listener ran and the newest
\* event of the log is the response.done it prepended.
HandledBatch ==
  /\ lastOp' = "message"
  /\ Len(events') = Len(events) + 1
  /\ events'[1].type = "response.done"

IsCall(o)       == o.type = "function_call"
Parsable(o)     == IsCall(o) /\ JSONparse(o.arguments).ok
Unparsable(o)   == IsCall(o) /\ ~JSONparse(o.arguments).ok
Interactive(o)  == o.name = "control_snake"
NeedsFollowUp(o) == Parsable(o) /\ ~Interactive(o)
SnakeCall(o)    == Parsable(o) /\ Interactive(o) /\ JSONparse(o.arguments).obj
Last(q)         == q[Len(q)]

\* C2: in a response.done batch an output with unparsable arguments only logs
\* a validation error: functionCallOutput and activeFunction are those of the
\* last parsable output of the batch (unchanged when there is none), the
\* unparsable ones schedule nothing and set no snake command, and every parsable
\* sibling is handled.
C2_MalformedCallIsolated ==
  [][ HandledBatch =>
        LET batch == events'[1].output
            good  == SelectSeq(batch, Parsable)
            bad   == SelectSeq(batch, Unparsable)
            moves == SelectSeq(batch, SnakeCall)
        IN  /\ diag'.parseArgs = Len(bad) + Len(SelectSeq(good, Interactive)) - Len(moves)
            /\ functionCallOutput' =
                 IF good = <<>> THEN functionCallOutput ELSE Last(good)
            /\ activeFunction' =
                 IF good = <<>> THEN activeFunction ELSE Last(good).name
            /\ functionCallOutput' \notin {o \in Outputs : Unparsable(o)}
            /\ Len(timers') = Len(timers) + Len(SelectSeq(batch, NeedsFollowUp))
            /\ (moves = <<>> => snakeCommand' = snakeCommand)
            /\ ~crashed' ]_vars

\* a batch with an unparsable output and a parsable sibling has been handled: one
\* validation error is logged and the sibling is the active function
C2_Witness ==
  /\ lastOp = "message"
  /\ events # <<>>
  /\ events[1].type = "response.done"
  /\ \E i, j \in 1..Len(events[1].output) :
        /\ Unparsable(events[1].output[i])
        /\ Parsable(events[1].output[j])
        /\ functionCallOutput = events[1].output[j]
  /\ diag.parseArgs = 1
  /\ Len(timers) = 1

\* C3: each parsable function call of a non-interactive capability schedules
\* exactly one deferred follow-up, closed over the current data channel; nothing
\* is transmitted while response.done is handled; a follow-up response.create is
\* transmitted only when its timer fires, and a timer fires once.
FollowUps(q) == Cardinality({i \in 1..Len(q) : q[i].type = "response.create" /\ q[i].instr # ""})

PromptOf(o) == IF o.name = "create_pixel_art" THEN PixelPrompt ELSE PalettePrompt

C3_FollowUpDeferred ==
  [][ /\ HandledBatch =>
        LET need == SelectSeq(events'[1].output, NeedsFollowUp)
        IN  /\ Len(timers') = Len(timers) + Len(need)
            /\ \A i \in 1..Len(timers) : timers'[i] = timers[i]
            /\ \A i \in 1..Len(need) :
                  timers'[Len(timers) + i] =
                    [instr |-> PromptOf(need[i]), dc |-> dataChannel, stale |-> FALSE]
            /\ sent' = sent
      /\ (\E k \in Starts : FollowUps(sent'[k]) # FollowUps(sent[k])) =>
            /\ lastOp' = "timer"
            /\ timers # <<>>
            /\ timers' = Tail(timers)
            /\ \E k \in Starts :
                  /\ k = Head(timers).dc
                  /\ Len(sent'[k]) = Len(sent[k]) + 1
                  /\ Last(sent'[k]).instr = Head(timers).instr
                  /\ \A j \in Starts \ {k} : sent'[j] = sent[j]
      /\ lastOp' = "timer" => Len(timers') = Len(timers) - 1 ]_vars

\* a follow-up scheduled by a handled palette call has fired and was transmitted
C3_Witness ==
  /\ lastOp = "timer"
  /\ \E k \in Starts : FollowUps(sent[k]) = 1
  /\ events # <<>>
  /\ events[1].type = "response.create"
  /\ events[1].instr = PalettePrompt
  /\ activeFunction = "display_color_palette"

\* C4: a parsable control_snake call schedules no follow-up and transmits
\* nothing; the direction of the last such call of the batch becomes the snake
\* command; no pending timer and no transmitted follow-up stems from a
\* control_snake call.
C4_InteractiveNoFollowUp ==
  [][ HandledBatch =>
        LET batch == events'[1].output
            moves == SelectSeq(batch, SnakeCall)
            calls == SelectSeq(batch, IsCall)
        IN  /\ moves # <<>> => snakeCommand' = JSONparse(Last(moves).arguments).direction
            /\ (calls # <<>> /\ Last(calls) \in Range(moves)) => activeFunction' = "control_snake"
            /\ (\A i \in 1..Len(calls) : Interactive(calls[i])) =>
                  /\ timers' = timers
                  /\ sent' = sent
            /\ Len(timers') - Len(timers) <= Len(calls) - Len(SelectSeq(calls, Interactive)) ]_vars

\* a control_snake call was handled: its direction is the command, nothing pending
C4_Witness ==
  /\ lastOp = "message"
  /\ events # <<>>
  /\ events[1].type = "response.done"
  /\ \E i \in 1..Len(events[1].output) : SnakeCall(events[1].output[i])
  /\ activeFunction = "control_snake"
  /\ snakeCommand = "up"
  /\ timers = <<>>


\* C5 (as claimed): in an active session whose log holds a session.created
\* event, whatever was recorded before it, the registration has been sent on
\* the session's channel and the flag is set.
C5_FirstCreatedRegisters ==
  ( /\ ~crashed
    /\ isSessionActive
    /\ dataChannel # 0
    /\ dcState[dataChannel] = "open"
    /\ dataChannel \in opened
    /\ \A k \in Starts : k # dataChannel => dcState[k] \notin {"connecting", "open"}
    /\ CountType(events, "session.created") >= 1 )
  => ( /\ functionAdded
       /\ CountType(sent[dataChannel], "session.update") = 1 )

\* C6 (as claimed): when a data channel opens, the registered flag is false.
C6_FlagResetAtOpen ==
  lastOp = "open" => ~functionAdded

\* C7: stopSession() from any state raises nothing and leaves isSessionActive
\* false, no data channel and no peer connection held, with every channel and
\* connection it held closed; a stopSession() right after another changes nothing.
Held == << isSessionActive, events, dataChannel, peerConnection, functionAdded,
           functionCallOutput, activeFunction, snakeCommand, sessionUpdateId,
           timers, listening, crashed, startPc, pcState, dcState, micState,
           sent, nextUuid >>

C7_StopIdempotent ==
  /\ [] ( lastOp = "stop" =>
            /\ ~isSessionActive
            /\ dataChannel = 0
            /\ peerConnection = 0
            /\ diag = NoDiag
            /\ ~crashed )
  /\ [][ lastOp' = "stop" =>
            /\ dataChannel # 0 => dcState'[dataChannel] = "closed"
            /\ peerConnection # 0 => pcState'[peerConnection] = "closed"
            /\ lastOp = "stop" => UNCHANGED Held ]_vars

\* stopSession() ended an active session
C7_Witness ==
  /\ lastOp = "stop"
  /\ opened # {}
  /\ \A k \in opened : dcState[k] = "closed" /\ pcState[k] = "closed"
  /\ ~isSessionActive

\* C8 (as claimed): once stopSession() has run after a startSession() call and
\* that call has finished, nothing the call created is still open or live.
C8_StopReleasesAll ==
  \A k \in stopped :
    startPc[k] \in Failed \cup {"done"} =>
      /\ micState[k] # "live"
      /\ dcState[k] \notin {"connecting", "open"}
      /\ pcState[k] # "open"

\* C9 (as claimed): a follow-up that was pending when stopSession() ran never
\* fires.
C9_StopCancelsFollowUp ==
  [][ Len(timers') < Len(timers) => ~Head(timers).stale ]_vars

\* C10: a startSession() call that failed at the credential fetch, the
\* microphone request or the offer/answer exchange never opened its channel, so
\* it never set isSessionActive; while no call has succeeded the session is not
\* active.
C10_FailedStartNotActive ==
  /\ \A k \in Starts :
        startPc[k] \in Failed => k \notin opened /\ dcState[k] # "open"
  /\ (\A k \in Starts : startPc[k] # "done") => ~isSessionActive

\* a start failed in the offer/answer exchange, its channel created and set
C10_Witness ==
  /\ \E k \in Starts :
        /\ startPc[k] = "failedExchange"
        /\ dcState[k] = "connecting"
        /\ dataChannel = k
  /\ ~isSessionActive
  /\ lastOp = "exchange"


\* --- the lifecycle of startSession() calls
\* C11 (as claimed): a startSession() call that ended with its promise rejected
\* has released what it acquired before the failure: its peer connection is not
\* open, its microphone track is not live, its data channel is not connecting
\* or open and is not the dataChannel the App holds.
C11_FailedStartReleases ==
  \A k \in Starts :
    startPc[k] \in Failed =>
      /\ pcState[k] # "open"
      /\ micState[k] # "live"
      /\ dcState[k] \notin {"connecting", "open"}
      /\ dataChannel # k

\* C12 (as claimed): at most one data channel is open with the message listener
\* attached, and such a channel belongs to the peer connection the App holds.
Delivering == {k \in Starts : dcState[k] = "open" /\ k \in listening}

C12_OneChannelFeeds ==
  /\ Cardinality(Delivering) <= 1
  /\ \A k \in Delivering : peerConnection = k

\* C13 (as claimed): a startSession() call creates its peer connection only if
\* every call made before it has failed or has been followed by stopSession():
\* a call made while an earlier one is negotiating or has succeeded creates
\* nothing.
C13_StartRejectedWhenBusy ==
  [][ \A k \in Starts :
        (pcState[k] = "none" /\ pcState'[k] = "open") =>
          \A j \in Starts :
            j < k => (startPc[j] \in Failed \/ j \in stopped) ]_vars

\* C14 (as claimed): isSessionActive turns true only by the channel of a
\* startSession() call opening, and that call was made after the last
\* stopSession(): nothing that was started before a stop activates the session
\* after it.
C14_ActiveOnlyByLaterStart ==
  [][ (~isSessionActive /\ isSessionActive') =>
        \E k \in Starts :
          /\ dcState[k] = "connecting"
          /\ dcState'[k] = "open"
          /\ k \notin stopped ]_vars


\* --- sendClientEvent() without a transport
\* the channel a send would use is null, or is not open
NoTransport(dc) == dc = 0 \/ dcState[dc] # "open"

\* C15: a send made while the channel it would use is null, connecting or
\* closed transmits nothing, records nothing in the log and schedules nothing:
\* this holds for sendTextMessage(), for the follow-up of a timer and for the
\* registration made while a message is handled.  Nothing is put on a channel
\* except in a step that found it open, so nothing is transmitted later when a
\* channel opens.
C15_RejectedSendNotQueued ==
  [][ /\ (lastOp' = "sendText" /\ NoTransport(dataChannel)) =>
            /\ sent' = sent
            /\ events' = events
            /\ timers' = timers
      /\ (lastOp' = "timer" /\ timers # <<>> /\ NoTransport(Head(timers).dc)) =>
            /\ sent' = sent
            /\ events' = events
            /\ timers' = Tail(timers)
      /\ (lastOp' = "message" /\ NoTransport(dataChannel)) =>
            /\ sent' = sent
            /\ CountType(events', "session.update") <= CountType(events, "session.update")
      /\ \A k \in Starts : sent'[k] # sent[k] => dcState[k] = "open"
      /\ lastOp' = "open" => sent' = sent ]_vars

\* sendTextMessage() while the held channel is still connecting: send() threw,
\* nothing is in the log and nothing was transmitted
C15_Witness ==
  /\ lastOp = "sendText"
  /\ dataChannel # 0
  /\ dcState[dataChannel] = "connecting"
  /\ diag.threw = 1
  /\ events = <<>>
  /\ \A k \in Starts : sent[k] = <<>>


\* C16 (as claimed): the caller of a send that was rejected for want of a data
\* channel learns of it, so the registration is not taken as made: a handler
\* in which sendClientEvent() found no channel does not turn functionAdded
\* true.
C16_RejectedSendNotTakenAsDone ==
  [][ (diag'.noChannel > 0 /\ ~functionAdded) => ~functionAdded' ]_vars


\* --- event ids
\* the types of the events sendClientEvent() is called with
ClientTypes == {"session.update", "conversation.item.create", "response.create"}

\* the positions of sequence q that hold client events
ClientAt(q) == {i \in 1..Len(q) : q[i].type \in ClientTypes}

\* every client event of q has an id made by crypto.randomUUID(), and no two
\* of them have the same
DistinctIds(q) ==
  /\ \A i \in ClientAt(q) : q[i].event_id[1] = "uuid"
  /\ \A i, j \in ClientAt(q) : i # j => q[i].event_id # q[j].event_id

\* C17: every client event sent without an id of the caller's has been given
\* one, and the client events recorded in the log, like those transmitted on
\* one channel, have pairwise distinct ids.
C17_ClientIdsDistinct ==
  /\ DistinctIds(events)
  /\ \A k \in Starts : DistinctIds(sent[k])

\* the sessionUpdate object was sent in two sessions with the id its first
\* send gave it, other ids having been made in between; each session has it once
C17_Witness ==
  /\ Cardinality(opened) = 2
  /\ \A k \in Starts : CountType(sent[k], "session.update") = 1
  /\ CountType(events, "session.update") = 1
  /\ nextUuid > 2


\* --- the log as EventLog shows it
\* how many entries of sequence q are e
Count(q, e) == Cardinality({i \in 1..Len(q) : q[i] = e})

\* the position in the events array of the newest event of type t
NewestOf(t) == CHOOSE i \in 1..Len(events) :
                 /\ events[i].type = t
                 /\ \A j \in 1..Len(events) : events[j].type = t => i <= j

\* C18: for every delta type that has been received the log shown has exactly
\* one entry, the most recently received event of that type; every event that
\* is not a delta is shown as many times as it was received.
C18_OneEntryPerDeltaType ==
  /\ \A t \in DeltaTypes :
        CountType(events, t) >= 1 =>
          /\ CountType(eventsToDisplay, t) = 1
          /\ \E i \in 1..Len(eventsToDisplay) :
                eventsToDisplay[i] = events[NewestOf(t)]
  /\ \A e \in Range(events) :
        (e # JsonNull /\ ~EndsWithDelta(e.type)) =>
          Count(eventsToDisplay, e) = Count(events, e)

\* two deltas of one type with different ids were received, another event as
\* well: the newer delta is shown, the older is not
C18_Witness ==
  \E t \in DeltaTypes :
    /\ CountType(events, t) = 2
    /\ \E i \in 1..Len(events) :
          /\ events[i].type = t
          /\ events[i] # events[NewestOf(t)]
          /\ Count(eventsToDisplay, events[i]) = 0
    /\ Count(eventsToDisplay, events[NewestOf(t)]) = 1
    /\ \E e \in Range(eventsToDisplay) : ~EndsWithDelta(e.type)

\* the entries of q, newest first, at the positions in I
RECURSIVE Pick(_, _, _)
Pick(q, I, i) ==
  IF i > Len(q) THEN <<>>
  ELSE (IF i \in I THEN <<q[i]>> ELSE <<>>) \o Pick(q, I, i + 1)

TypesOf(q) == [i \in 1..Len(q) |-> q[i].type]

\* positions of the events array that hold an event to show, a delta type
\* counted where its oldest (first received) event stands
FirstOccurrences ==
  {i \in 1..Len(events) :
     /\ events[i] # JsonNull
     /\ EndsWithDelta(events[i].type) =>
          \A j \in 1..Len(events) : events[j].type = events[i].type => j <= i}

\* the same, a delta type counted where its newest event stands
LastOccurrences ==
  {i \in 1..Len(events) :
     /\ events[i] # JsonNull
     /\ EndsWithDelta(events[i].type) =>
          \A j \in 1..Len(events) : events[j].type = events[i].type => i <= j}

\* C19 (as claimed): the one entry shown for a delta type stands, among the
\* other entries, where the first event of that type was received.
C19_DeltaKeepsFirstPosition ==
  TypesOf(eventsToDisplay) = TypesOf(Pick(events, FirstOccurrences, 1))

\* C19 (amended): the one entry shown for a delta type stands, among the other
\* entries, where the most recent event of that type was received: the log
\* shown is the events array without the deltas that a newer one of their type
\* has superseded.
C19_DeltaTakesNewestPosition ==
  eventsToDisplay = Pick(events, LastOccurrences, 1)

\* a delta, then another event, then a delta of the same type: the log shows
\* the newer delta first and the other event after it
C19_Witness ==
  /\ Len(events) = 3
  /\ EndsWithDelta(events[1].type)
  /\ events[3].type = events[1].type
  /\ events[3] # events[1]
  /\ ~EndsWithDelta(events[2].type)
  /\ events[2] # JsonNull
  /\ eventsToDisplay = <<events[1], events[2]>>

\* C20 (as claimed): what the message listener could not decode as an event,
\* a JSON object with a string type, is not in the log, and the client goes on
\* handling messages.
C20_UndecodableDropped ==
  /\ \A i \in 1..Len(events) : events[i] \notin {JsonNull, JsonNumber}
  /\ (\E k \in Starts : dcState[k] = "open") => ~crashed


\* --- dispatch of inbound events
\* C21 (as claimed): every response.done received is routed: the messages of
\* Spec carry one function call that needs a follow-up, so a step of the
\* message listener schedules as many follow-ups as it received response.done
\* events, whatever arrived right after them.
C21_EveryDoneRouted ==
  [][ (lastOp' = "message" /\ ~crashed') =>
        Len(timers') - Len(timers) =
          CountType(events', "response.done") - CountType(events, "response.done") ]_vars


\* C22: while the App is mounted the events array is, newest first, exactly
\* what the message listener decoded and what sendClientEvent() sent since the
\* log was last cleared, in the order these happened: nothing is reordered,
\* merged or left out.
C22_LogInArrivalOrder ==
  ~crashed => events = Reversed(history)

\* session.created was received, then a text was sent: the log holds the three
\* events, the two sends first
C22_Witness ==
  /\ lastOp = "sendText"
  /\ Len(history) = 3
  /\ history[1].type = "session.created"
  /\ history[2].type = "conversation.item.create"
  /\ history[3].type = "response.create"
  /\ events = <<history[3], history[2], history[1]>>
  /\ ~crashed


\* C23 (as claimed): after stopSession() the event log is empty.
C23_StopClearsLog ==
  lastOp = "stop" => events = <<>>

\* C23 (amended): stopSession() leaves the event log as it was; the log is
\* cleared when the channel of a session opens, so the log of an ended session
\* stays until the next session's channel opens.
C23_LogClearedAtOpen ==
  [][ /\ lastOp' = "stop" => events' = events
      /\ (lastOp' = "open" /\ ~crashed /\ \E k \in listening :
             dcState[k] = "connecting" /\ dcState'[k] = "open") =>
            events' = <<>> ]_vars

\* a session that had recorded events was stopped, a second one was started
\* and its channel has just opened: the log is empty
C23_Witness ==
  /\ lastOp = "open"
  /\ Cardinality(opened) = 2
  /\ stopped # {}
  /\ \E k \in Starts : sent[k] # <<>> /\ dcState[k] = "closed"
  /\ events = <<>>


\* --- provenance
\* the event was recorded by sendClientEvent()
FromClient(e) == \E k \in Starts : e \in Range(sent[k])

\* C24 (as claimed): every event of the log that sendClientEvent() recorded is
\* shown as the client's and every other one as the server's.
C24_ProvenanceById ==
  \A e \in Range(eventsToDisplay) : isClient(e) <=> FromClient(e)


\* --- the flags and what they stand for
\* C27 (as claimed): while isSessionActive is true the App holds a data channel,
\* that channel is open, and its open event has been handled.
C27_ActiveMeansChannelOpen ==
  isSessionActive =>
    /\ dataChannel # 0
    /\ dcState[dataChannel] = "open"
    /\ dataChannel \in opened

\* C28 (as claimed): while functionAdded is true the App holds a data channel
\* and a session.update has been transmitted on it.
C28_FlagMeansRegistered ==
  functionAdded =>
    /\ dataChannel # 0
    /\ CountType(sent[dataChannel], "session.update") >= 1

\* C29 (as claimed): a follow-up is transmitted on no channel but the one the
\* App held when it was scheduled, and once the channel of a later
\* startSession() call has opened (the log is that session's from then on) a
\* follow-up scheduled before transmits nothing and adds nothing to the log.
C29_FollowUpStaysInSession ==
  [][ (lastOp' = "timer" /\ timers # <<>>) =>
        LET t == Head(timers) IN
          /\ \A k \in Starts : sent'[k] # sent[k] => k = t.dc
          /\ (\E k \in opened : k > t.dc) =>
                (sent' = sent /\ events' = events) ]_vars


\* --- the Snake control loop
Vocabulary == {"up", "down", "left", "right", "stop"}

\* the direction that the newest event of log q commands
Commanded(q) == JSONparse(q[1].output[1].arguments).direction

\* this step handled a response.done whose one output is a control_snake call
\* with arguments that parse, and the game is on the screen after it
SnakeCallHandled ==
  /\ lastOp' = "message"
  /\ ~crashed'
  /\ Len(history') = Len(history) + 1
  /\ events' # <<>>
  /\ events'[1].type = "response.done"
  /\ Len(events'[1].output) = 1
  /\ events'[1].output[1].type = "function_call"
  /\ events'[1].output[1].name = "control_snake"
  /\ JSONparse(events'[1].output[1].arguments).ok
  /\ SnakeShown'

\* C25 (as claimed): a handled control_snake call whose direction is none of
\* up, down, left, right, stop leaves the direction and the playing flag of
\* the game as they were (those of a new game, if the game was not on the
\* screen before).
C25_UnknownCommandIgnored ==
  [][ (SnakeCallHandled /\ Commanded(events') \notin Vocabulary) =>
        IF SnakeShown
        THEN UNCHANGED << direction, isPlaying >>
        ELSE direction' = INITIAL_DIRECTION /\ isPlaying' = FALSE ]_vars

\* C26 (as claimed): after every handled control_snake call with a direction
\* of up, down, left, right the game has that direction and is playing, and
\* after every handled "stop" call the game is not playing, whatever the
\* buttons and keys did before the call.
C26_SteeringCallTakesEffect ==
  [][ SnakeCallHandled =>
        LET d == Commanded(events') IN
          /\ d \in DOMAIN directions =>
                (direction' = directions[d] /\ isPlaying' = TRUE)
          /\ d = "stop" => isPlaying' = FALSE ]_vars

\* --- the game
InGrid(seg) ==
  /\ IsVec(seg)
  /\ seg.x \in 0..(GRID_SIZE - 1)
  /\ seg.y \in 0..(GRID_SIZE - 1)

\* C30: with directions from up, down, left, right only, every segment of the
\* snake has integer coordinates x and y with 0 <= x < 20 and 0 <= y < 20
\* after every tick.
C30_SnakeStaysInGrid ==
  \A i \in 1..Len(snake) : InGrid(snake[i])

\* a snake of two segments has just moved right across the right edge: its
\* head is in column 0 and the segment behind it in column 19
C30_Witness ==
  /\ lastOp = "tick"
  /\ direction = Vec(1, 0)
  /\ Len(snake) = 2
  /\ snake[1].x = 0
  /\ snake[2].x = GRID_SIZE - 1

\* C31: a tick makes the snake one segment longer when its new head is on the
\* food cell and leaves its length as it was otherwise; while the game is on
\* the screen the snake never gets shorter, it is never empty, and it changes
\* only by a tick, which happens only while the game is playing.
C31_LengthAndMovement ==
  [][ /\ lastOp' = "tick" =>
            Len(snake') = Len(snake) + (IF snake'[1] = food THEN 1 ELSE 0)
      /\ (SnakeShown /\ SnakeShown') => Len(snake') >= Len(snake)
      /\ snake' # <<>>
      /\ snake' # snake => (isPlaying /\ lastOp' = "tick") ]_vars

\* the snake has just moved down onto the first food cell, (15,15), and has a
\* second segment on the cell it came from
C31_Witness ==
  /\ lastOp = "tick"
  /\ isPlaying
  /\ direction = Vec(0, 1)
  /\ snake = << Vec(15, 15), Vec(15, 14) >>

\* --- the keyboard
\* C32 (as claimed): a press of an arrow key raises no error and leaves the
\* game playing in the direction of that key; a press of the space bar raises
\* no error and leaves the game not playing.
C32_KeyboardSteers ==
  [][ lastOp' \in DOMAIN keyDirections =>
        LET newCommand == keyDirections[lastOp'] IN
          /\ diag'.threw = 0
          /\ IF newCommand = "stop"
             THEN isPlaying' = FALSE
             ELSE direction' = directions[newCommand] /\ isPlaying' = TRUE ]_vars

====
